---------------------------- MODULE Spec2Model ----------------------------
(***************************************************************************)
(* contracts/ElectionFactory.sol: the ElectionFactory contract and one     *)
(* Election contract it deploys.                                           *)
(*                                                                         *)
(* An Election is a separate contract with its own storage; the factory    *)
(* keeps only its address.  The model carries the factory's storage and    *)
(* the storage of one deployed Election (the instance `self`), chosen      *)
(* freely among the elections the factory creates; the other elections     *)
(* appear as addresses in the factory's mapping only.                      *)
(*                                                                         *)
(* A transaction is atomic: a failed require reverts every write and every *)
(* emitted event of the call.  msg.sender and block.timestamp are the      *)
(* inputs of a call; block.timestamp never decreases.  Durations and       *)
(* timestamps are drawn far below 2^256, so the checked additions of the   *)
(* constructor never overflow.                                             *)
(***************************************************************************)
EXTENDS Integers, Sequences, FiniteSets

\* ------------------------------------------------------------------ bounds
NumPrincipals == 2
MaxElections  == 2
MaxCandidates == 2
MaxDuration   == 1
MaxTime       == 2

Principals   == 1..NumPrincipals            \* msg.sender of a call
Durations    == 0..MaxDuration              \* _registrationDuration, _votingDuration
Texts        == {"", "T"}                   \* _title, _description
Names        == {"", "Alice", "Bob"}        \* _name
CandidateIds == 0..(MaxCandidates + 1)      \* _candidateId, _id
ElectionIds  == 0..(MaxElections + 1)       \* _id of getElectionAddress

\* ------------------------------------------------------------------ types
Phases == <<"Created", "Registration", "Voting", "Ended">>

Candidate(id, name, voteCount) == [id |-> id, name |-> name, voteCount |-> voteCount]

\* a mapping slot that was never written
ZeroCandidate == Candidate(0, "", 0)

OK == "ok"

\* the outcome of a call: the storage and the events it leaves, and the
\* revert reason (OK when the call did not revert)
Revert(el, reason) == [st |-> el, emitted |-> <<>>, err |-> reason]

Commit(el, evs) == [st |-> el, emitted |-> evs, err |-> OK]

VARIABLES
    electionCount,   \* ElectionFactory.electionCount
    elections,       \* ElectionFactory.elections: id -> address (0 = unset)
    factoryLog,      \* the events the factory emitted
    self,            \* the id under which the Election instance was created, 0 before
    election,        \* the storage of the Election instance
    log,             \* the events the Election instance emitted
    timestamp        \* block.timestamp

vars == <<electionCount, elections, factoryLog, self, election, log, timestamp>>

\* ------------------------------------------------------------------ Election
\* the storage of an address that holds no Election yet
NoElection ==
    [admin |-> 0, title |-> "", description |-> "", phase |-> "Created",
     registrationStart |-> 0, registrationEnd |-> 0,
     votingStart |-> 0, votingEnd |-> 0,
     candidatesCount |-> 0,
     candidates |-> [i \in CandidateIds |-> ZeroCandidate],
     isRegisteredVoter |-> [p \in Principals |-> FALSE],
     hasVoted |-> [p \in Principals |-> FALSE]]

\* constructor that opens voting together with registration
constructor_votingFromStart(admin, title, description, registrationDuration, votingDuration, now) ==
    LET registrationStart == now
        registrationEnd   == registrationStart + registrationDuration
        votingStart       == registrationStart
        votingEnd         == votingStart + votingDuration
    IN  [NoElection EXCEPT
            !.admin = admin, !.title = title, !.description = description,
            !.phase = "Created",
            !.registrationStart = registrationStart,
            !.registrationEnd = registrationEnd,
            !.votingStart = votingStart,
            !.votingEnd = votingEnd]

constructor(admin, title, description, registrationDuration, votingDuration, now) ==
    LET registrationStart == now
        registrationEnd   == registrationStart + registrationDuration
        votingStart       == registrationEnd
        votingEnd         == votingStart + votingDuration
    IN  [NoElection EXCEPT
            !.admin = admin, !.title = title, !.description = description,
            !.phase = "Created",
            !.registrationStart = registrationStart,
            !.registrationEnd = registrationEnd,
            !.votingStart = votingStart,
            !.votingEnd = votingEnd]

\* onlyAdmin that lets every caller through
onlyAdmin_anyone(el, sender) == TRUE

onlyAdmin(el, sender) == sender = el.admin

\* inPhase that lets every phase through
inPhase_always(el, phase) == TRUE

inPhase(el, phase) == el.phase = phase

\* addCandidate that numbers the candidate before it increments the count
addCandidate_idBeforeIncrement(el, sender, name) ==
    IF ~onlyAdmin(el, sender) THEN Revert(el, "Only admin")
    ELSE IF ~inPhase(el, "Created") THEN Revert(el, "Invalid phase")
    ELSE IF ~(name # "") THEN Revert(el, "Name required")
    ELSE LET n == el.candidatesCount
         IN  Commit([el EXCEPT !.candidatesCount = n + 1,
                               !.candidates[n] = Candidate(n, name, 0)],
                    << <<"CandidateAdded", n, name>> >>)

\* addCandidate without the inPhase(Created) modifier
addCandidate_anyPhase(el, sender, name) ==
    IF ~onlyAdmin(el, sender) THEN Revert(el, "Only admin")
    ELSE IF ~(name # "") THEN Revert(el, "Name required")
    ELSE LET n == el.candidatesCount + 1
         IN  Commit([el EXCEPT !.candidatesCount = n,
                               !.candidates[n] = Candidate(n, name, 0)],
                    << <<"CandidateAdded", n, name>> >>)

\* addCandidate with its two modifiers in the other order
addCandidate_phaseFirst(el, sender, name) ==
    IF ~inPhase(el, "Created") THEN Revert(el, "Invalid phase")
    ELSE IF ~onlyAdmin(el, sender) THEN Revert(el, "Only admin")
    ELSE IF ~(name # "") THEN Revert(el, "Name required")
    ELSE LET n == el.candidatesCount + 1
         IN  Commit([el EXCEPT !.candidatesCount = n,
                               !.candidates[n] = Candidate(n, name, 0)],
                    << <<"CandidateAdded", n, name>> >>)

addCandidate(el, sender, name) ==
    IF ~onlyAdmin(el, sender) THEN Revert(el, "Only admin")
    ELSE IF ~inPhase(el, "Created") THEN Revert(el, "Invalid phase")
    ELSE IF ~(name # "") THEN Revert(el, "Name required")
    ELSE LET n == el.candidatesCount + 1
         IN  Commit([el EXCEPT !.candidatesCount = n,
                               !.candidates[n] = Candidate(n, name, 0)],
                    << <<"CandidateAdded", n, name>> >>)

\* startRegistration without its phase requirement
startRegistration_anyPhase(el, sender, now) ==
    IF ~onlyAdmin(el, sender) THEN Revert(el, "Only admin")
    ELSE Commit([el EXCEPT !.phase = "Registration"],
                << <<"PhaseChanged", "Registration">> >>)

startRegistration(el, sender, now) ==
    IF ~onlyAdmin(el, sender) THEN Revert(el, "Only admin")
    ELSE IF ~(el.phase = "Created") THEN Revert(el, "Already started")
    ELSE Commit([el EXCEPT !.phase = "Registration"],
                << <<"PhaseChanged", "Registration">> >>)

\* startVoting that waits for the end of the registration window
startVoting_afterRegistrationEnd(el, sender, now) ==
    IF ~onlyAdmin(el, sender) THEN Revert(el, "Only admin")
    ELSE IF ~(el.phase = "Registration") THEN Revert(el, "Must be in registration")
    ELSE IF ~(now >= el.registrationEnd) THEN Revert(el, "Registration not ended")
    ELSE IF ~(el.candidatesCount > 0) THEN Revert(el, "No candidates")
    ELSE Commit([el EXCEPT !.phase = "Voting"],
                << <<"PhaseChanged", "Voting">> >>)

\* startVoting without the candidatesCount requirement
startVoting_noCandidateCheck(el, sender, now) ==
    IF ~onlyAdmin(el, sender) THEN Revert(el, "Only admin")
    ELSE IF ~(el.phase = "Registration") THEN Revert(el, "Must be in registration")
    ELSE Commit([el EXCEPT !.phase = "Voting"],
                << <<"PhaseChanged", "Voting">> >>)

startVoting(el, sender, now) ==
    IF ~onlyAdmin(el, sender) THEN Revert(el, "Only admin")
    ELSE IF ~(el.phase = "Registration") THEN Revert(el, "Must be in registration")
    ELSE IF ~(el.candidatesCount > 0) THEN Revert(el, "No candidates")
    ELSE Commit([el EXCEPT !.phase = "Voting"],
                << <<"PhaseChanged", "Voting">> >>)

\* endElection that does not emit ElectionEnded
endElection_noEndedEvent(el, sender, now) ==
    IF ~onlyAdmin(el, sender) THEN Revert(el, "Only admin")
    ELSE IF ~(el.phase = "Voting") THEN Revert(el, "Must be in voting")
    ELSE Commit([el EXCEPT !.phase = "Ended"],
                << <<"PhaseChanged", "Ended">> >>)

endElection(el, sender, now) ==
    IF ~onlyAdmin(el, sender) THEN Revert(el, "Only admin")
    ELSE IF ~(el.phase = "Voting") THEN Revert(el, "Must be in voting")
    ELSE Commit([el EXCEPT !.phase = "Ended"],
                << <<"PhaseChanged", "Ended">>, <<"ElectionEnded">> >>)

\* registerVoter whose window excludes its last instant
registerVoter_endExclusive(el, sender, now) ==
    IF ~inPhase(el, "Registration") THEN Revert(el, "Invalid phase")
    ELSE IF ~(now >= el.registrationStart /\ now < el.registrationEnd)
         THEN Revert(el, "Registration window closed")
    ELSE IF ~(~el.isRegisteredVoter[sender]) THEN Revert(el, "Already registered")
    ELSE Commit([el EXCEPT !.isRegisteredVoter[sender] = TRUE],
                << <<"VoterRegistered", sender>> >>)

\* registerVoter without the inPhase(Registration) modifier
registerVoter_anyPhase(el, sender, now) ==
    IF ~(now >= el.registrationStart /\ now <= el.registrationEnd)
         THEN Revert(el, "Registration window closed")
    ELSE IF ~(~el.isRegisteredVoter[sender]) THEN Revert(el, "Already registered")
    ELSE Commit([el EXCEPT !.isRegisteredVoter[sender] = TRUE],
                << <<"VoterRegistered", sender>> >>)

registerVoter(el, sender, now) ==
    IF ~inPhase(el, "Registration") THEN Revert(el, "Invalid phase")
    ELSE IF ~(now >= el.registrationStart /\ now <= el.registrationEnd)
         THEN Revert(el, "Registration window closed")
    ELSE IF ~(~el.isRegisteredVoter[sender]) THEN Revert(el, "Already registered")
    ELSE Commit([el EXCEPT !.isRegisteredVoter[sender] = TRUE],
                << <<"VoterRegistered", sender>> >>)

\* vote whose window excludes its first instant
vote_startExclusive(el, sender, candidateId, now) ==
    IF ~inPhase(el, "Voting") THEN Revert(el, "Invalid phase")
    ELSE IF ~(now > el.votingStart /\ now <= el.votingEnd)
         THEN Revert(el, "Voting window closed")
    ELSE IF ~el.isRegisteredVoter[sender] THEN Revert(el, "Not registered voter")
    ELSE IF ~(~el.hasVoted[sender]) THEN Revert(el, "Already voted")
    ELSE IF ~(candidateId > 0 /\ candidateId <= el.candidatesCount)
         THEN Revert(el, "Invalid candidate")
    ELSE Commit([el EXCEPT
                    !.hasVoted[sender] = TRUE,
                    !.candidates[candidateId].voteCount =
                        el.candidates[candidateId].voteCount + 1],
                << <<"VoteCast", sender, candidateId>> >>)

\* vote that marks the voter before it checks the candidate id, and reports a
\* bad id without undoing the mark
vote_markBeforeCheck(el, sender, candidateId, now) ==
    IF ~inPhase(el, "Voting") THEN Revert(el, "Invalid phase")
    ELSE IF ~(now >= el.votingStart /\ now <= el.votingEnd)
         THEN Revert(el, "Voting window closed")
    ELSE IF ~el.isRegisteredVoter[sender] THEN Revert(el, "Not registered voter")
    ELSE IF ~(~el.hasVoted[sender]) THEN Revert(el, "Already voted")
    ELSE IF ~(candidateId > 0 /\ candidateId <= el.candidatesCount)
         THEN Revert([el EXCEPT !.hasVoted[sender] = TRUE], "Invalid candidate")
    ELSE Commit([el EXCEPT
                    !.hasVoted[sender] = TRUE,
                    !.candidates[candidateId].voteCount =
                        el.candidates[candidateId].voteCount + 1],
                << <<"VoteCast", sender, candidateId>> >>)

\* vote without the hasVoted requirement
vote_noVotedCheck(el, sender, candidateId, now) ==
    IF ~inPhase(el, "Voting") THEN Revert(el, "Invalid phase")
    ELSE IF ~(now >= el.votingStart /\ now <= el.votingEnd)
         THEN Revert(el, "Voting window closed")
    ELSE IF ~el.isRegisteredVoter[sender] THEN Revert(el, "Not registered voter")
    ELSE IF ~(candidateId > 0 /\ candidateId <= el.candidatesCount)
         THEN Revert(el, "Invalid candidate")
    ELSE Commit([el EXCEPT
                    !.hasVoted[sender] = TRUE,
                    !.candidates[candidateId].voteCount =
                        el.candidates[candidateId].voteCount + 1],
                << <<"VoteCast", sender, candidateId>> >>)

\* vote that sets the tally to 1 instead of adding 1
vote_tallyAssigned(el, sender, candidateId, now) ==
    IF ~inPhase(el, "Voting") THEN Revert(el, "Invalid phase")
    ELSE IF ~(now >= el.votingStart /\ now <= el.votingEnd)
         THEN Revert(el, "Voting window closed")
    ELSE IF ~el.isRegisteredVoter[sender] THEN Revert(el, "Not registered voter")
    ELSE IF ~(~el.hasVoted[sender]) THEN Revert(el, "Already voted")
    ELSE IF ~(candidateId > 0 /\ candidateId <= el.candidatesCount)
         THEN Revert(el, "Invalid candidate")
    ELSE Commit([el EXCEPT
                    !.hasVoted[sender] = TRUE,
                    !.candidates[candidateId].voteCount = 1],
                << <<"VoteCast", sender, candidateId>> >>)

\* vote that marks the voter and leaves the tally as it is
vote_noTally(el, sender, candidateId, now) ==
    IF ~inPhase(el, "Voting") THEN Revert(el, "Invalid phase")
    ELSE IF ~(now >= el.votingStart /\ now <= el.votingEnd)
         THEN Revert(el, "Voting window closed")
    ELSE IF ~el.isRegisteredVoter[sender] THEN Revert(el, "Not registered voter")
    ELSE IF ~(~el.hasVoted[sender]) THEN Revert(el, "Already voted")
    ELSE IF ~(candidateId > 0 /\ candidateId <= el.candidatesCount)
         THEN Revert(el, "Invalid candidate")
    ELSE Commit([el EXCEPT !.hasVoted[sender] = TRUE],
                << <<"VoteCast", sender, candidateId>> >>)

\* vote without the registration requirement
vote_noRegistrationCheck(el, sender, candidateId, now) ==
    IF ~inPhase(el, "Voting") THEN Revert(el, "Invalid phase")
    ELSE IF ~(now >= el.votingStart /\ now <= el.votingEnd)
         THEN Revert(el, "Voting window closed")
    ELSE IF ~(~el.hasVoted[sender]) THEN Revert(el, "Already voted")
    ELSE IF ~(candidateId > 0 /\ candidateId <= el.candidatesCount)
         THEN Revert(el, "Invalid candidate")
    ELSE Commit([el EXCEPT
                    !.hasVoted[sender] = TRUE,
                    !.candidates[candidateId].voteCount =
                        el.candidates[candidateId].voteCount + 1],
                << <<"VoteCast", sender, candidateId>> >>)

vote(el, sender, candidateId, now) ==
    IF ~inPhase(el, "Voting") THEN Revert(el, "Invalid phase")
    ELSE IF ~(now >= el.votingStart /\ now <= el.votingEnd)
         THEN Revert(el, "Voting window closed")
    ELSE IF ~el.isRegisteredVoter[sender] THEN Revert(el, "Not registered voter")
    ELSE IF ~(~el.hasVoted[sender]) THEN Revert(el, "Already voted")
    ELSE IF ~(candidateId > 0 /\ candidateId <= el.candidatesCount)
         THEN Revert(el, "Invalid candidate")
    ELSE Commit([el EXCEPT
                    !.hasVoted[sender] = TRUE,
                    !.candidates[candidateId].voteCount =
                        el.candidates[candidateId].voteCount + 1],
                << <<"VoteCast", sender, candidateId>> >>)

\* the outcome of a view call: the value it returns; it has no require
Return(value) == [ret |-> value, err |-> OK]

getCandidate(el, id) == Return(el.candidates[id])

getAllCandidates(el) == [i \in 1..el.candidatesCount |-> el.candidates[i]]

getPhase(el) == el.phase

getTimeWindows(el) ==
    <<el.registrationStart, el.registrationEnd, el.votingStart, el.votingEnd>>

\* ------------------------------------------------------------------ state machine
Init ==
    /\ electionCount = 0
    /\ elections = [i \in ElectionIds |-> 0]
    /\ factoryLog = <<>>
    /\ self = 0
    /\ election = NoElection
    /\ log = <<>>
    /\ timestamp = 0

\* a later block
Tick ==
    /\ timestamp < MaxTime
    /\ timestamp' = timestamp + 1
    /\ UNCHANGED <<electionCount, elections, factoryLog, self, election, log>>

\* ElectionFactory.createElection; `deploysSelf` tells whether the contract it
\* deploys is the Election instance the model carries
CreateElection ==
    \E sender \in Principals, title \in Texts, description \in Texts,
       registrationDuration \in Durations, votingDuration \in Durations,
       deploysSelf \in BOOLEAN :
        /\ electionCount < MaxElections
        /\ deploysSelf => self = 0
        /\ electionCount' = electionCount + 1
        /\ elections' = [elections EXCEPT ![electionCount + 1] = electionCount + 1]
        /\ factoryLog' = Append(factoryLog,
              <<"ElectionCreated", electionCount + 1, electionCount + 1, sender, title>>)
        /\ IF deploysSelf
           THEN /\ self' = electionCount + 1
                /\ election' = constructor(sender, title, description,
                                           registrationDuration, votingDuration, timestamp)
           ELSE UNCHANGED <<self, election>>
        /\ UNCHANGED <<log, timestamp>>

\* a transaction sent to the Election instance: its outcome `out` is applied
\* whole (a reverted call leaves the storage and the log as they were)
Transact(out) ==
    /\ self # 0
    /\ election' = out.st
    /\ log' = log \o out.emitted
    /\ UNCHANGED <<electionCount, elections, factoryLog, self, timestamp>>

AddCandidate ==
    \E sender \in Principals, name \in Names :
        /\ election.candidatesCount < MaxCandidates
        /\ Transact(addCandidate(election, sender, name))

StartRegistration ==
    \E sender \in Principals :
        Transact(startRegistration(election, sender, timestamp))

StartVoting ==
    \E sender \in Principals :
        Transact(startVoting(election, sender, timestamp))

EndElection ==
    \E sender \in Principals :
        Transact(endElection(election, sender, timestamp))

RegisterVoter ==
    \E sender \in Principals :
        Transact(registerVoter(election, sender, timestamp))

Vote ==
    \E sender \in Principals, candidateId \in CandidateIds :
        Transact(vote(election, sender, candidateId, timestamp))

Next ==
    \/ Tick
    \/ CreateElection
    \/ AddCandidate
    \/ StartRegistration
    \/ StartVoting
    \/ EndElection
    \/ RegisterVoter
    \/ Vote

Spec == Init /\ [][Next]_vars

\* ------------------------------------------------------------------ vocabulary
\* the error kinds of the design and the revert reasons that stand for them
AccessDenied      == {"Only admin"}
InvalidPhase      == {"Invalid phase", "Already started", "Must be in registration",
                      "Must be in voting"}
InvalidInput      == {"Name required"}
NoCandidates      == {"No candidates"}
WindowClosed      == {"Registration window closed", "Voting window closed"}
AlreadyRegistered == {"Already registered"}
NotRegistered     == {"Not registered voter"}
AlreadyVoted      == {"Already voted"}
InvalidCandidate  == {"Invalid candidate"}

PhaseIndex(phase) == CHOOSE i \in 1..4 : Phases[i] = phase

Deployed == self # 0

\* the positions of the log that hold PhaseChanged(phase)
PhaseChanges(phase) ==
    {i \in 1..Len(log) : log[i][1] = "PhaseChanged" /\ log[i][2] = phase}

\* the positions of the log where `voter` cast a vote for candidate `id`
VoteCasts(voter, id) ==
    {i \in 1..Len(log) : /\ log[i][1] = "VoteCast"
                         /\ log[i][2] = voter
                         /\ log[i][3] = id}

RECURSIVE SumVoteCount(_, _)
SumVoteCount(el, n) ==
    IF n = 0 THEN 0 ELSE el.candidates[n].voteCount + SumVoteCount(el, n - 1)

\* the step is the outcome `out` of a call to the Election instance
StepIs(out) == election' = out.st /\ log' = log \o out.emitted

Times == 0..MaxTime

\* ------------------------------------------------------------------ C1
C1_ForwardStep ==
    election'.phase # election.phase =>
        \/ /\ election.phase = "Created" /\ election'.phase = "Registration"
           /\ \E sender \in Principals :
                LET out == startRegistration(election, sender, timestamp)
                IN  out.err = OK /\ StepIs(out)
        \/ /\ election.phase = "Registration" /\ election'.phase = "Voting"
           /\ \E sender \in Principals :
                LET out == startVoting(election, sender, timestamp)
                IN  out.err = OK /\ StepIs(out)
        \/ /\ election.phase = "Voting" /\ election'.phase = "Ended"
           /\ \E sender \in Principals :
                LET out == endElection(election, sender, timestamp)
                IN  out.err = OK /\ StepIs(out)

C1_AtMostOnce ==
    Deployed =>
        /\ \A i \in 2..4 :
              Cardinality(PhaseChanges(Phases[i])) =
                  IF PhaseIndex(election.phase) >= i THEN 1 ELSE 0
        /\ \A now \in Times :
              /\ election.phase # "Created" =>
                    startRegistration(election, election.admin, now).err \in InvalidPhase
              /\ election.phase \in {"Voting", "Ended"} =>
                    startVoting(election, election.admin, now).err \in InvalidPhase
              /\ election.phase = "Ended" =>
                    endElection(election, election.admin, now).err \in InvalidPhase

\* C1: the phase changes only by one of the steps Created -> Registration (a
\* successful startRegistration), Registration -> Voting (a successful
\* startVoting), Voting -> Ended (a successful endElection); each of the three
\* succeeds at most once, and once it has succeeded every later attempt by the
\* admin fails with InvalidPhase.
C1_PhaseProgress == [][C1_ForwardStep]_vars /\ []C1_AtMostOnce

\* the election ran through all three transitions and the admin tries them again
C1_Witness ==
    /\ Deployed
    /\ election.phase = "Ended"
    /\ \A i \in 2..4 : Cardinality(PhaseChanges(Phases[i])) = 1
    /\ startRegistration(election, election.admin, timestamp).err = "Already started"
    /\ startVoting(election, election.admin, timestamp).err = "Must be in registration"
    /\ endElection(election, election.admin, timestamp).err = "Must be in voting"

\* ------------------------------------------------------------------ C2
InVotingWindow(el, now) == now >= el.votingStart /\ now <= el.votingEnd

\* C2 as stated: once a voter has voted, every later vote call by that voter
\* fails with AlreadyVoted, whatever the candidate id, the time and the state
\* of the election, and changes no tally.
C2_Original ==
    Deployed =>
        \A voter \in Principals : election.hasVoted[voter] =>
            \A candidateId \in CandidateIds :
                LET out == vote(election, voter, candidateId, timestamp)
                IN  out.err \in AlreadyVoted /\ out.st = election

C2_FlagOneWay == \A voter \in Principals : election.hasVoted[voter] => election'.hasVoted[voter]

C2_LaterVoteFails ==
    Deployed =>
        \A voter \in Principals :
            /\ Cardinality({i \in 1..Len(log) : log[i][1] = "VoteCast" /\ log[i][2] = voter})
                  = IF election.hasVoted[voter] THEN 1 ELSE 0
            /\ election.hasVoted[voter] =>
                  \A candidateId \in CandidateIds, now \in timestamp..MaxTime :
                      LET out == vote(election, voter, candidateId, now)
                      IN  /\ out.st = election
                          /\ out.emitted = <<>>
                          /\ out.err \in
                                IF election.phase # "Voting" THEN InvalidPhase
                                ELSE IF ~InVotingWindow(election, now) THEN WindowClosed
                                ELSE AlreadyVoted

\* C2 (amended): hasVoted of a voter goes from false to true at most once and
\* never back; once a voter has voted, every later vote call by that voter, for
\* any candidate id, fails and changes no tally: with AlreadyVoted while the
\* phase is Voting and the clock is inside the voting window, with
\* WindowClosed while the phase is Voting and the clock is past votingEnd, and
\* with InvalidPhase once the election has ended.
C2_VoteOnce == [][C2_FlagOneWay]_vars /\ []C2_LaterVoteFails

\* a voter who has voted calls vote again while another ballot is still open
C2_Witness ==
    /\ Deployed
    /\ election.phase = "Voting"
    /\ InVotingWindow(election, timestamp)
    /\ \E voter \in Principals, other \in Principals :
          /\ election.hasVoted[voter]
          /\ vote(election, voter, 1, timestamp).err = "Already voted"
          /\ vote(election, other, 1, timestamp).err = OK

\* ------------------------------------------------------------------ C3
\* the principals whose successful vote targeted candidate `id`
VotersOf(id) == {voter \in Principals : VoteCasts(voter, id) # {}}

\* C3: each candidate's voteCount is the number of distinct principals whose
\* successful vote targeted that candidate id, and the tallies add up to the
\* number of successful votes, which is the number of principals that have voted.
C3_TallyMatchesVotes ==
    Deployed =>
        /\ \A id \in CandidateIds :
              election.candidates[id].voteCount = Cardinality(VotersOf(id))
        /\ SumVoteCount(election, election.candidatesCount)
              = Cardinality({i \in 1..Len(log) : log[i][1] = "VoteCast"})
        /\ SumVoteCount(election, election.candidatesCount)
              = Cardinality({voter \in Principals : election.hasVoted[voter]})

\* two principals have voted for the same candidate
C3_Witness ==
    /\ Deployed
    /\ \E id \in CandidateIds :
          /\ election.candidates[id].voteCount = 2
          /\ Cardinality(VotersOf(id)) = 2

\* ------------------------------------------------------------------ C4
\* the ids and names of the candidates, in id order
CandidateList(el) ==
    [i \in 1..el.candidatesCount |-> <<el.candidates[i].id, el.candidates[i].name>>]

C4_OthersDenied ==
    Deployed =>
        \A sender \in Principals \ {election.admin}, now \in Times :
            /\ \A name \in Names :
                  addCandidate(election, sender, name).err \in AccessDenied
            /\ startRegistration(election, sender, now).err \in AccessDenied
            /\ startVoting(election, sender, now).err \in AccessDenied
            /\ endElection(election, sender, now).err \in AccessDenied

C4_AdminStep ==
    /\ (~Deployed /\ self' # 0) =>
          election'.admin = factoryLog'[Len(factoryLog')][4]
    /\ Deployed =>
          /\ election'.admin = election.admin
          /\ (\/ election'.phase # election.phase
              \/ CandidateList(election') # CandidateList(election)) =>
                \/ \E name \in Names :
                      StepIs(addCandidate(election, election.admin, name))
                \/ StepIs(startRegistration(election, election.admin, timestamp))
                \/ StepIs(startVoting(election, election.admin, timestamp))
                \/ StepIs(endElection(election, election.admin, timestamp))

\* C4: in every phase and at every time, addCandidate, startRegistration,
\* startVoting and endElection called by anyone but the admin fail with
\* AccessDenied; the phase and the candidate list change only by a call of the
\* admin; the admin is the creator of the election and never changes.
C4_AdminOnly == []C4_OthersDenied /\ [][C4_AdminStep]_vars

\* a principal that is not the admin tries to end a running election
C4_Witness ==
    /\ Deployed
    /\ election.phase = "Voting"
    /\ \E sender \in Principals :
          /\ sender # election.admin
          /\ endElection(election, sender, timestamp).err = "Only admin"
          /\ endElection(election, election.admin, timestamp).err = OK

\* ------------------------------------------------------------------ C5
\* the last event of a log
Last(l) == l[Len(l)]

\* the conditions under which the claims say a vote succeeds
VoteAllowed(el, sender, candidateId, now) ==
    /\ el.phase = "Voting"
    /\ el.votingStart <= now /\ now <= el.votingEnd
    /\ el.isRegisteredVoter[sender]
    /\ ~el.hasVoted[sender]
    /\ 1 <= candidateId /\ candidateId <= el.candidatesCount

\* `after` is `before` with the ballot of `sender` for `candidateId` counted, and
\* nothing else changed
BallotCounted(before, after, sender, candidateId) ==
    /\ \A f \in DOMAIN before \ {"hasVoted", "candidates"} : after[f] = before[f]
    /\ \A p \in Principals :
          after.hasVoted[p] = IF p = sender THEN TRUE ELSE before.hasVoted[p]
    /\ \A id \in CandidateIds :
          /\ after.candidates[id].id = before.candidates[id].id
          /\ after.candidates[id].name = before.candidates[id].name
          /\ after.candidates[id].voteCount =
                before.candidates[id].voteCount + IF id = candidateId THEN 1 ELSE 0

C5_VoteOutcome ==
    Deployed =>
        \A sender \in Principals, candidateId \in CandidateIds, now \in timestamp..MaxTime :
            LET out == vote(election, sender, candidateId, now)
            IN  /\ (out.err = OK) <=> VoteAllowed(election, sender, candidateId, now)
                /\ out.err = OK => BallotCounted(election, out.st, sender, candidateId)
                /\ (election.phase = "Voting" /\ now < election.votingStart) =>
                      out.err \in WindowClosed

C5_VoteStep ==
    (Len(log') > Len(log) /\ Last(log')[1] = "VoteCast") =>
        /\ VoteAllowed(election, Last(log')[2], Last(log')[3], timestamp)
        /\ BallotCounted(election, election', Last(log')[2], Last(log')[3])
        /\ UNCHANGED <<electionCount, elections, factoryLog, self, timestamp>>

\* C5: vote succeeds exactly when the phase is Voting, votingStart <= now <=
\* votingEnd, the caller is registered and has not voted, and the candidate id
\* is in 1..candidatesCount; a successful vote sets hasVoted of the caller, adds
\* 1 to the voteCount of the target and changes nothing else; while the phase is
\* Voting and now < votingStart a vote fails with WindowClosed.
C5_VoteExactly == []C5_VoteOutcome /\ [][C5_VoteStep]_vars

\* a ballot cast at the first instant of the voting window, which opens later
\* than registration did
C5_Witness ==
    /\ Deployed
    /\ election.votingStart > election.registrationStart
    /\ timestamp = election.votingStart
    /\ \E i \in 1..Len(log) : log[i][1] = "VoteCast"

\* ------------------------------------------------------------------ C6
RegistrationAllowed(el, sender, now) ==
    /\ el.phase = "Registration"
    /\ el.registrationStart <= now /\ now <= el.registrationEnd
    /\ ~el.isRegisteredVoter[sender]

\* `after` is `before` with `sender` registered, and nothing else changed
VoterAdded(before, after, sender) ==
    /\ \A f \in DOMAIN before \ {"isRegisteredVoter"} : after[f] = before[f]
    /\ \A p \in Principals :
          after.isRegisteredVoter[p] =
              IF p = sender THEN TRUE ELSE before.isRegisteredVoter[p]

C6_RegisterOutcome ==
    Deployed =>
        \A sender \in Principals, now \in timestamp..MaxTime :
            LET out == registerVoter(election, sender, now)
            IN  /\ (out.err = OK) <=> RegistrationAllowed(election, sender, now)
                /\ out.err = OK => VoterAdded(election, out.st, sender)
                /\ out.err # OK =>
                      out.err \in
                          IF election.phase # "Registration" THEN InvalidPhase
                          ELSE IF ~(election.registrationStart <= now
                                    /\ now <= election.registrationEnd)
                               THEN WindowClosed
                          ELSE AlreadyRegistered

C6_RegisterStep ==
    (Len(log') > Len(log) /\ Last(log')[1] = "VoterRegistered") =>
        /\ RegistrationAllowed(election, Last(log')[2], timestamp)
        /\ VoterAdded(election, election', Last(log')[2])
        /\ UNCHANGED <<electionCount, elections, factoryLog, self, timestamp>>

\* C6: registerVoter, called by the admin or anyone else, succeeds exactly when
\* the phase is Registration, registrationStart <= now <= registrationEnd and
\* the caller is not registered yet; otherwise it fails with InvalidPhase in
\* another phase, else with WindowClosed outside the window, else with
\* AlreadyRegistered (the repeat call of a registered caller); a successful
\* call changes isRegisteredVoter of the caller and nothing else.
C6_RegisterExactly == []C6_RegisterOutcome /\ [][C6_RegisterStep]_vars

\* the admin and another principal registered, the last of them at the last
\* instant of a window that is longer than an instant, and a repeat call fails
C6_Witness ==
    /\ Deployed
    /\ election.phase = "Registration"
    /\ election.registrationEnd > election.registrationStart
    /\ timestamp = election.registrationEnd
    /\ Len(log) > 0 /\ Last(log)[1] = "VoterRegistered"
    /\ \A p \in Principals : election.isRegisteredVoter[p]
    /\ registerVoter(election, election.admin, timestamp).err = "Already registered"

\* ------------------------------------------------------------------ C7
\* C7 as stated: once the phase has left Created, every addCandidate call
\* fails with InvalidPhase, whoever calls and whatever the name.
C7_Original ==
    (Deployed /\ election.phase # "Created") =>
        \A sender \in Principals, name \in Names :
            addCandidate(election, sender, name).err \in InvalidPhase

C7_AddCandidateFails ==
    (Deployed /\ election.phase # "Created") =>
        \A sender \in Principals, name \in Names :
            LET out == addCandidate(election, sender, name)
            IN  /\ out.err \in
                      IF sender = election.admin THEN InvalidPhase ELSE AccessDenied
                /\ out.st = election
                /\ out.emitted = <<>>

C7_ListClosed ==
    (Deployed /\ election.phase # "Created") =>
        /\ election'.candidatesCount = election.candidatesCount
        /\ CandidateList(election') = CandidateList(election)

\* C7 (amended): once the phase has left Created, every addCandidate call
\* fails, whatever the name, and the candidate list stays as it is: the call
\* fails with InvalidPhase when the caller is the admin and with AccessDenied
\* when the caller is not the admin.
C7_AddCandidateClosed == []C7_AddCandidateFails /\ [][C7_ListClosed]_vars

\* after the phase has left Created the admin and another principal both try
\* to add a candidate under a valid name
C7_Witness ==
    /\ Deployed
    /\ election.phase # "Created"
    /\ addCandidate(election, election.admin, "Alice").err = "Invalid phase"
    /\ \E sender \in Principals :
          /\ sender # election.admin
          /\ addCandidate(election, sender, "Alice").err = "Only admin"

\* ------------------------------------------------------------------ C8
ErrorKinds ==
    {AccessDenied, InvalidPhase, InvalidInput, NoCandidates, WindowClosed,
     AlreadyRegistered, NotRegistered, AlreadyVoted, InvalidCandidate}

\* the outcomes of all calls that can be made to the Election instance now or later
Outcomes ==
    UNION {
        {addCandidate(election, sender, name) : name \in Names}
        \cup {vote(election, sender, candidateId, now) : candidateId \in CandidateIds}
        \cup {startRegistration(election, sender, now),
              startVoting(election, sender, now),
              endElection(election, sender, now),
              registerVoter(election, sender, now)}
        : <<sender, now>> \in Principals \X (timestamp..MaxTime)}

C8_RejectedOutcome ==
    Deployed =>
        \A out \in Outcomes :
            \/ out.err = OK
            \/ /\ Cardinality({kind \in ErrorKinds : out.err \in kind}) = 1
               /\ out.st = election
               /\ out.emitted = <<>>

\* a step that emits no notification is no state change of the election or of
\* the factory
C8_SilentStep ==
    (log' = log /\ factoryLog' = factoryLog) =>
        UNCHANGED <<electionCount, elections, self, election>>

\* C8: every call succeeds or fails with exactly one error kind; a rejected
\* call leaves the whole storage of the election (phase, candidates, tallies,
\* isRegisteredVoter, hasVoted, time windows, admin) and of the factory as they
\* were and emits no notification.
C8_RejectedChangesNothing == []C8_RejectedOutcome /\ [][C8_SilentStep]_vars

\* a registered voter who could vote for candidate 1 names a candidate that
\* does not exist
C8_Witness ==
    /\ Deployed
    /\ \E sender \in Principals :
          /\ vote(election, sender, 1, timestamp).err = OK
          /\ vote(election, sender, election.candidatesCount + 1, timestamp).err
                = "Invalid candidate"
          /\ vote(election, sender, election.candidatesCount + 1, timestamp).st = election

\* ------------------------------------------------------------------ C9
IsCandidateAdded(ev) == ev[1] = "CandidateAdded"

C9_DenseIds ==
    Deployed =>
        LET added == SelectSeq(log, IsCandidateAdded)
            all   == getAllCandidates(election)
        IN  /\ \A id \in CandidateIds :
                  IF 1 <= id /\ id <= election.candidatesCount
                  THEN /\ election.candidates[id].id = id
                       /\ election.candidates[id].name # ""
                  ELSE election.candidates[id] = ZeroCandidate
            /\ Len(added) = election.candidatesCount
            /\ \A k \in 1..Len(added) :
                  /\ added[k][2] = k
                  /\ added[k][3] = election.candidates[k].name
            /\ Len(all) = election.candidatesCount
            /\ \A i \in 1..Len(all) : all[i].id = i /\ all[i] = election.candidates[i]

C9_CandidateStep ==
    Deployed =>
        /\ \A id \in 1..election.candidatesCount :
              /\ election'.candidates[id].id = election.candidates[id].id
              /\ election'.candidates[id].name = election.candidates[id].name
        /\ \/ election'.candidatesCount = election.candidatesCount
           \/ /\ election'.candidatesCount = election.candidatesCount + 1
              /\ Last(log')[1] = "CandidateAdded"
              /\ election'.candidates[election'.candidatesCount] =
                    Candidate(election.candidatesCount + 1, Last(log')[3], 0)

\* C9: the candidates have exactly the ids 1..candidatesCount; the k-th
\* successful addCandidate creates candidate k with the supplied non-empty name
\* and voteCount 0; no later call changes the id or the name of a candidate or
\* writes a candidate outside 1..candidatesCount; getAllCandidates returns the
\* candidates in ascending id order.
C9_CandidateIds == []C9_DenseIds /\ [][C9_CandidateStep]_vars

\* two candidates with different names, added in this order, one with a vote
C9_Witness ==
    /\ Deployed
    /\ election.candidatesCount = 2
    /\ election.candidates[1].name = "Bob"
    /\ election.candidates[2].name = "Alice"
    /\ election.candidates[2].voteCount = 1
    /\ getAllCandidates(election)[2].id = 2

\* ------------------------------------------------------------------ C10
\* C10: the admin's transitions do not depend on the clock: at any time,
\* startRegistration succeeds in phase Created, startVoting in phase
\* Registration succeeds when there is a candidate and fails with NoCandidates
\* when there is none, and endElection succeeds in phase Voting.
C10_ClockIndependent ==
    Deployed =>
        \A now \in Times :
            /\ election.phase = "Created" =>
                  LET out == startRegistration(election, election.admin, now)
                  IN  out.err = OK /\ out.st.phase = "Registration"
            /\ election.phase = "Registration" =>
                  LET out == startVoting(election, election.admin, now)
                  IN  IF election.candidatesCount >= 1
                      THEN out.err = OK /\ out.st.phase = "Voting"
                      ELSE out.err \in NoCandidates
            /\ election.phase = "Voting" =>
                  LET out == endElection(election, election.admin, now)
                  IN  out.err = OK /\ out.st.phase = "Ended"

\* an election ended before its voting window (and so its registration
\* window's end) was reached
C10_Witness ==
    /\ Deployed
    /\ election.phase = "Ended"
    /\ timestamp < election.votingStart
    /\ timestamp < election.votingEnd

\* ------------------------------------------------------------------ C11
\* two calls submitted together are mined one after the other, in either order
Then(first, second) == [st |-> second.st, emitted |-> first.emitted \o second.emitted,
                        err |-> <<first.err, second.err>>]

C11_NoLostBallot ==
    Deployed =>
        /\ SumVoteCount(election, election.candidatesCount)
              = Cardinality({voter \in Principals : election.hasVoted[voter]})
        \* the same principal twice: the first call counts, the second is rejected
        /\ \A voter \in Principals, c1 \in CandidateIds, c2 \in CandidateIds :
              (/\ VoteAllowed(election, voter, c1, timestamp)
               /\ VoteAllowed(election, voter, c2, timestamp)) =>
                  LET o1 == vote(election, voter, c1, timestamp)
                      o2 == vote(o1.st, voter, c2, timestamp)
                  IN  /\ o1.err = OK
                      /\ o2.err \in AlreadyVoted
                      /\ o2.st = o1.st
                      /\ SumVoteCount(o2.st, o2.st.candidatesCount)
                            = SumVoteCount(election, election.candidatesCount) + 1
        \* two principals, one candidate: both count, in either order, with the
        \* same result
        /\ \A p \in Principals, q \in Principals, id \in CandidateIds :
              (/\ p # q
               /\ VoteAllowed(election, p, id, timestamp)
               /\ VoteAllowed(election, q, id, timestamp)) =>
                  LET pq == Then(vote(election, p, id, timestamp),
                                 vote(vote(election, p, id, timestamp).st, q, id, timestamp))
                      qp == Then(vote(election, q, id, timestamp),
                                 vote(vote(election, q, id, timestamp).st, p, id, timestamp))
                  IN  /\ pq.err = <<OK, OK>> /\ qp.err = <<OK, OK>>
                      /\ pq.st = qp.st
                      /\ pq.st.candidates[id].voteCount
                            = election.candidates[id].voteCount + 2
                      /\ pq.st.hasVoted[p] /\ pq.st.hasVoted[q]

\* in one step the flag of a voter and a tally change together or not at all
C11_FlagWithTally ==
    Deployed =>
        LET flipped == {voter \in Principals :
                            ~election.hasVoted[voter] /\ election'.hasVoted[voter]}
        IN  /\ Cardinality(flipped) <= 1
            /\ SumVoteCount(election', election'.candidatesCount)
                  = SumVoteCount(election, election.candidatesCount) + Cardinality(flipped)

\* C11: calls to one election take effect one at a time and whole: two vote
\* calls of the same registered principal submitted together give one success
\* and one tally increment; two votes of different registered principals for
\* the same candidate both count, in either order with the same result; no
\* state shows hasVoted of a voter without the tally increment or the reverse.
C11_Serialized == []C11_NoLostBallot /\ [][C11_FlagWithTally]_vars

\* two registered principals can both vote for candidate 1 in this block
C11_Witness ==
    /\ Deployed
    /\ \A voter \in Principals : VoteAllowed(election, voter, 1, timestamp)
    /\ vote(vote(election, 1, 1, timestamp).st, 2, 1, timestamp).st.candidates[1].voteCount = 2
    /\ vote(vote(election, 1, 1, timestamp).st, 1, 1, timestamp).err = "Already voted"

\* ------------------------------------------------------------------ C12
\* C12: createElection fails with InvalidInput, allocates no id, stores no
\* election and emits no ElectionCreated when the title is empty, the
\* description is empty, the registration duration is zero or the voting
\* duration is zero, whoever calls the factory: no election that exists was
\* created from such arguments.
C12_CreateValidates ==
    /\ Len(factoryLog) = electionCount
    /\ \A i \in 1..Len(factoryLog) : factoryLog[i][5] # ""
    /\ Deployed =>
          /\ election.title # ""
          /\ election.description # ""
          /\ election.registrationEnd - election.registrationStart > 0
          /\ election.votingEnd - election.votingStart > 0

\* ------------------------------------------------------------------ C13
C13_WindowsOrdered ==
    /\ getTimeWindows(constructor(1, "T", "T", 100, 200, 0)) = <<0, 100, 100, 300>>
    /\ Deployed =>
          /\ getTimeWindows(election) =
                <<election.registrationStart, election.registrationEnd,
                  election.votingStart, election.votingEnd>>
          /\ election.registrationStart <= election.registrationEnd
          /\ election.registrationEnd = election.votingStart
          /\ election.votingStart <= election.votingEnd

C13_WindowStep ==
    /\ (~Deployed /\ self' # 0) =>
          LET w == getTimeWindows(election')
          IN  /\ w[1] = timestamp
              /\ w[2] - w[1] \in Durations
              /\ w[3] = w[2]
              /\ w[4] - w[3] \in Durations
    /\ Deployed => getTimeWindows(election') = getTimeWindows(election)

\* C13: an election created at time now with durations regDuration and
\* votDuration has registrationStart = now, registrationEnd = now +
\* regDuration, votingStart = registrationEnd and votingEnd = votingStart +
\* votDuration (0, 100, 200 give [0,100] and [100,300]); no later call changes
\* the four bounds, and registrationStart <= registrationEnd = votingStart <=
\* votingEnd in every state.
C13_WindowsFixed == []C13_WindowsOrdered /\ [][C13_WindowStep]_vars

\* an election created later than time 0 with two windows longer than an
\* instant has run to its end
C13_Witness ==
    /\ Deployed
    /\ election.phase = "Ended"
    /\ election.registrationStart > 0
    /\ election.registrationEnd > election.registrationStart
    /\ election.votingEnd > election.votingStart
    /\ \E i \in 1..Len(log) : log[i][1] = "VoteCast"

\* ------------------------------------------------------------------ C14
\* C14: in every phase getCandidate(id) fails with InvalidCandidate for id = 0
\* and for every id > candidatesCount, and returns a candidate record only for
\* the ids 1..candidatesCount.
C14_GetCandidateChecks ==
    Deployed =>
        \A id \in CandidateIds :
            LET out == getCandidate(election, id)
            IN  IF 1 <= id /\ id <= election.candidatesCount
                THEN out.err = OK /\ out.ret = election.candidates[id]
                ELSE out.err \in InvalidCandidate

\* ------------------------------------------------------------------ C15
C15_EndedRejects ==
    (Deployed /\ election.phase = "Ended") =>
        \A out \in Outcomes :
            /\ out.err # OK
            /\ out.st = election
            /\ out.emitted = <<>>

C15_EndedStep ==
    (Deployed /\ election.phase = "Ended") =>
        /\ election' = election
        /\ log' = log

\* C15: once the phase is Ended, every call of addCandidate,
\* startRegistration, startVoting, endElection, registerVoter and vote, by any
\* caller at any time, fails, and the phase, the candidates, the tallies and
\* the isRegisteredVoter and hasVoted flags stay as endElection left them.
C15_EndedImmutable == []C15_EndedRejects /\ [][C15_EndedStep]_vars

\* the election ended inside its voting window while a registered voter had
\* not voted yet: the ballot is now refused
C15_Witness ==
    /\ Deployed
    /\ election.phase = "Ended"
    /\ InVotingWindow(election, timestamp)
    /\ \E voter \in Principals :
          /\ election.isRegisteredVoter[voter]
          /\ ~election.hasVoted[voter]
          /\ vote(election, voter, 1, timestamp).err = "Invalid phase"
    /\ \E i \in 1..Len(log) : log[i][1] = "VoteCast"

\* ------------------------------------------------------------------ C16
\* the error kind of the first rule of `rules` that is broken, a rule being a
\* pair <<the rule holds, the kind reported when it does not>>
FirstBroken(rules) ==
    LET broken == {i \in 1..Len(rules) : ~rules[i][1]}
    IN  IF broken = {} THEN {OK}
        ELSE rules[CHOOSE i \in broken : \A j \in broken : i <= j][2]

\* C16: a call that breaks several rules at once reports the first broken one
\* in a fixed order: for the admin functions authorization (AccessDenied),
\* then phase (InvalidPhase), then the business rule (InvalidInput for an empty
\* name, NoCandidates); for vote InvalidPhase, WindowClosed, NotRegistered,
\* AlreadyVoted, InvalidCandidate; for registerVoter InvalidPhase,
\* WindowClosed, AlreadyRegistered.
C16_Precedence ==
    Deployed =>
        \A sender \in Principals, now \in timestamp..MaxTime :
            LET isAdmin == <<sender = election.admin, AccessDenied>>
                phaseIs(phase) == <<election.phase = phase, InvalidPhase>>
            IN  /\ \A name \in Names :
                      addCandidate(election, sender, name).err \in
                          FirstBroken(<<isAdmin, phaseIs("Created"),
                                        <<name # "", InvalidInput>> >>)
                /\ startRegistration(election, sender, now).err \in
                      FirstBroken(<<isAdmin, phaseIs("Created")>>)
                /\ startVoting(election, sender, now).err \in
                      FirstBroken(<<isAdmin, phaseIs("Registration"),
                                    <<election.candidatesCount > 0, NoCandidates>> >>)
                /\ endElection(election, sender, now).err \in
                      FirstBroken(<<isAdmin, phaseIs("Voting")>>)
                /\ registerVoter(election, sender, now).err \in
                      FirstBroken(<<phaseIs("Registration"),
                                    <<election.registrationStart <= now
                                        /\ now <= election.registrationEnd, WindowClosed>>,
                                    <<~election.isRegisteredVoter[sender], AlreadyRegistered>> >>)
                /\ \A candidateId \in CandidateIds :
                      vote(election, sender, candidateId, now).err \in
                          FirstBroken(<<phaseIs("Voting"),
                                        <<InVotingWindow(election, now), WindowClosed>>,
                                        <<election.isRegisteredVoter[sender], NotRegistered>>,
                                        <<~election.hasVoted[sender], AlreadyVoted>>,
                                        <<1 <= candidateId
                                            /\ candidateId <= election.candidatesCount,
                                          InvalidCandidate>> >>)

\* calls that break every rule at once: after the voting window of an ended
\* election, a principal that is neither the admin nor registered adds a
\* candidate without a name and votes for candidate 0, and a voter who has
\* voted votes again
C16_Witness ==
    /\ Deployed
    /\ timestamp > election.votingEnd
    /\ election.phase = "Ended"
    /\ \E sender \in Principals :
          /\ sender # election.admin
          /\ ~election.isRegisteredVoter[sender]
          /\ addCandidate(election, sender, "").err = "Only admin"
          /\ vote(election, sender, 0, timestamp).err = "Invalid phase"
    /\ \E voter \in Principals :
          /\ election.hasVoted[voter]
          /\ vote(election, voter, 0, timestamp).err = "Invalid phase"

\* ------------------------------------------------------------------ C17
\* the positions of the log that hold an event named `name`
EventsNamed(name) == {i \in 1..Len(log) : log[i][1] = name}

C17_LogStep ==
    /\ ~Deployed => log' = log
    /\ Deployed =>
          /\ election' = election <=> log' = log
          /\ election'.candidatesCount > election.candidatesCount =>
                log' = Append(log,
                    <<"CandidateAdded", election'.candidatesCount,
                      election'.candidates[election'.candidatesCount].name>>)
          /\ \A voter \in Principals :
                (~election.isRegisteredVoter[voter] /\ election'.isRegisteredVoter[voter]) =>
                    log' = Append(log, <<"VoterRegistered", voter>>)
          /\ \A voter \in Principals :
                (~election.hasVoted[voter] /\ election'.hasVoted[voter]) =>
                    \E id \in CandidateIds :
                        /\ election'.candidates[id].voteCount
                              = election.candidates[id].voteCount + 1
                        /\ log' = Append(log, <<"VoteCast", voter, id>>)
          /\ election'.phase # election.phase =>
                log' = log \o
                    IF election'.phase = "Ended"
                    THEN << <<"PhaseChanged", "Ended">>, <<"ElectionEnded">> >>
                    ELSE << <<"PhaseChanged", election'.phase>> >>

C17_LogCounts ==
    Deployed =>
        /\ \A id \in CandidateIds :
              Cardinality({i \in EventsNamed("VoteCast") : log[i][3] = id})
                  = election.candidates[id].voteCount
        /\ Cardinality(EventsNamed("ElectionEnded"))
              = IF election.phase = "Ended" THEN 1 ELSE 0
        /\ EventsNamed("ElectionEnded") # {} =>
              /\ Last(log)[1] = "ElectionEnded"
              /\ log[Len(log) - 1] = <<"PhaseChanged", "Ended">>

\* C17: the log of an election mirrors its successful calls in order: one
\* CandidateAdded(id, name) per addCandidate, one VoterRegistered(voter) per
\* registerVoter, one VoteCast(voter, candidateId) per vote, one
\* PhaseChanged(phase) per startRegistration and startVoting, and
\* PhaseChanged(Ended) followed at once by ElectionEnded for endElection; a
\* failed call appends nothing; the VoteCast events of a candidate are as many
\* as its voteCount; ElectionEnded occurs at most once and is the last event.
C17_LogMirrors == [][C17_LogStep]_vars /\ []C17_LogCounts

\* an ended election whose log holds every kind of event
C17_Witness ==
    /\ Deployed
    /\ election.phase = "Ended"
    /\ Last(log)[1] = "ElectionEnded"
    /\ \A name \in {"CandidateAdded", "PhaseChanged", "VoterRegistered", "VoteCast"} :
          EventsNamed(name) # {}
    /\ Cardinality(EventsNamed("PhaseChanged")) = 3

\* ------------------------------------------------------------------ C18
\* C18: every principal that has voted is registered, so the tallies of an
\* election never add up to more than the number of its registered principals.
C18_VotersRegistered ==
    Deployed =>
        /\ \A voter \in Principals :
              election.hasVoted[voter] => election.isRegisteredVoter[voter]
        /\ SumVoteCount(election, election.candidatesCount)
              <= Cardinality({voter \in Principals : election.isRegisteredVoter[voter]})

\* a ballot has been counted while a principal that never registered is
\* refused in the open voting window
C18_Witness ==
    /\ Deployed
    /\ election.phase = "Voting"
    /\ InVotingWindow(election, timestamp)
    /\ SumVoteCount(election, election.candidatesCount) = 1
    /\ \E sender \in Principals :
          /\ ~election.isRegisteredVoter[sender]
          /\ vote(election, sender, 1, timestamp).err = "Not registered voter"

\* ------------------------------------------------------------------ C19
C19_NothingEarly ==
    Deployed =>
        /\ election.phase = "Created" =>
              \A voter \in Principals : ~election.isRegisteredVoter[voter]
        /\ election.phase \in {"Created", "Registration"} =>
              /\ \A id \in CandidateIds : election.candidates[id].voteCount = 0
              /\ \A voter \in Principals : ~election.hasVoted[voter]

C19_RollClosed ==
    (Deployed /\ election.phase \in {"Voting", "Ended"}) =>
        election'.isRegisteredVoter = election.isRegisteredVoter

\* C19: in phase Created no principal is registered; in phases Created and
\* Registration every voteCount is 0 and no principal has voted; once the
\* phase has left Registration the set of registered principals stays as it is.
C19_PhaseGates == []C19_NothingEarly /\ [][C19_RollClosed]_vars

\* voting has begun inside the registration window with one principal
\* registered; the other is refused registration now
C19_Witness ==
    /\ Deployed
    /\ election.phase = "Voting"
    /\ election.registrationStart <= timestamp /\ timestamp <= election.registrationEnd
    /\ \E voter \in Principals, other \in Principals :
          /\ election.isRegisteredVoter[voter]
          /\ ~election.isRegisteredVoter[other]
          /\ registerVoter(election, other, timestamp).err = "Invalid phase"

\* ------------------------------------------------------------------ C20
C20_ListAsAtRegistration ==
    Deployed =>
        /\ election.phase \in {"Voting", "Ended"} => election.candidatesCount >= 1
        /\ election.phase # "Created" =>
              \* the log up to the PhaseChanged(Registration) event holds the
              \* candidates as they were when startRegistration succeeded
              \E r \in 1..Len(log) :
                  /\ PhaseChanges("Registration") = {r}
                  /\ r - 1 = election.candidatesCount
                  /\ \A k \in 1..(r - 1) :
                        /\ log[k][1] = "CandidateAdded"
                        /\ log[k][2] = election.candidates[k].id
                        /\ log[k][3] = election.candidates[k].name
                  /\ \A k \in (r + 1)..Len(log) : log[k][1] # "CandidateAdded"

C20_ListStep ==
    (Deployed /\ election.phase # "Created") =>
        /\ election'.candidatesCount = election.candidatesCount
        /\ \A id \in CandidateIds :
              /\ election'.candidates[id].id = election.candidates[id].id
              /\ election'.candidates[id].name = election.candidates[id].name

\* C20: in phases Voting and Ended the election has at least one candidate;
\* after the phase has left Created, candidatesCount and the id and the name of
\* every candidate are what they were when startRegistration succeeded.
C20_ListFrozen == []C20_ListAsAtRegistration /\ [][C20_ListStep]_vars

\* an ended election with the two candidates it had at startRegistration, one
\* of them with a vote
C20_Witness ==
    /\ Deployed
    /\ election.phase = "Ended"
    /\ election.candidatesCount = 2
    /\ PhaseChanges("Registration") = {3}
    /\ election.candidates[1].voteCount = 1
    /\ addCandidate(election, election.admin, "Bob").err = "Invalid phase"

=============================================================================
